---- MODULE Spec2Model ----
(***************************************************************************)
(* HierarchicalRNNEncoder (models/pytorch/encoders/hierarchical_rnn.py).   *)
(*                                                                         *)
(* The constructor and forward are modelled statement block by statement   *)
(* block.  Tensors are abstracted to what the control flow and the shape   *)
(* arithmetic depend on: the batch rows they hold (as 0-based indices into *)
(* the caller's batch), their valid lengths / packed batch sizes, their    *)
(* padded time dimension, their feature width, and a symbolic content      *)
(* (how many times each layer's cell output has been added into them).     *)
(*                                                                         *)
(* The three scripts that drive a model (librispeech/evaluation/eval.py    *)
(* and csj/s5/exp/visualization/plot_[nested_]attention_weights.py) are     *)
(* modelled by the statements of their main and of their batch loop: load  *)
(* builds the model, and with it the encoder; decoding a batch runs the    *)
(* encoder's forward on it.                                                *)
(***************************************************************************)
EXTENDS Integers, Sequences, FiniteSets, TLC

VARIABLES pc, args, self, err, pool, batches_left, calls, ctor_i_layer,
          seq_len_arg, h_0, perm_indices, inputs, inputs_seq_len,
          outputs, res_outputs_list, i_layer, h_n, outputs_sub, h_n_sub,
          unpacked_seq_len, unpacked_seq_len_sub, layer_log, ret,
          script, main_log, dataset, figures

vars == <<pc, args, self, err, pool, batches_left, calls, ctor_i_layer,
          seq_len_arg, h_0, perm_indices, inputs, inputs_seq_len,
          outputs, res_outputs_list, i_layer, h_n, outputs_sub, h_n_sub,
          unpacked_seq_len, unpacked_seq_len_sub, layer_log, ret,
          script, main_log, dataset, figures>>

fwdLocals == <<seq_len_arg, h_0, perm_indices, inputs, inputs_seq_len,
               outputs, res_outputs_list, i_layer, h_n, outputs_sub, h_n_sub,
               unpacked_seq_len, unpacked_seq_len_sub, layer_log, ret>>

\* The state of a running script: which one, the steps of main done so far,
\* the number of mini-batches of its data set, and the figures drawn for the
\* last mini-batch.
mainVars == <<script, main_log, dataset, figures>>

(* ---------------------------- bounds ----------------------------------- *)
MaxLayers == 3
InputSize == 3
MaxUnits == 2
MaxProj == 2
MaxStack == 2
MaxBatch == 3
MaxLen == 5
MaxCalls == 2
MaxBatches == 2

(* ------------------------- small helpers ------------------------------- *)
None == "None"
\* num_proj=None, kept apart from every integer the caller can pass.
NoProj == -1
\* The width of a tensor expression the framework rejects.
BadShape == -1
Failed == [form |-> "error"]
Unset == "unset"
\* A list-valued local that has not been assigned yet.
Unbound == <<>>

Max(a, b) == IF a >= b THEN a ELSE b
Min(a, b) == IF a <= b THEN a ELSE b

\* Python sequences are 0-based; At0(s, i) is s[i].
At0(s, i) == s[i + 1]

RnnTypes == {"lstm", "gru", "rnn"}

\* All batches of 1..b sequences with lengths 1..l (the inputs_seq_len argument).
Batches(b, l) == UNION {[1..n -> 1..l] : n \in 1..b}

(* ------------------------- constructor arguments ----------------------- *)
\* The three conv_* lists are modelled by their lengths:
\* <<len(conv_channels), len(conv_kernel_sizes), len(conv_strides)>>.
ConvArgs == {<<0, 0, 0>>, <<1, 1, 1>>, <<1, 0, 0>>, <<1, 1, 0>>}

StackSplice == {<<1, 1>>} \cup {<<n, 1>> : n \in 2..MaxStack}
                          \cup {<<1, n>> : n \in 2..MaxStack}

ArgSpace(rnnTypes, bidirs, units, projs, merges, layerPairs, convs, stacks) ==
    {[input_size |-> InputSize, rnn_type |-> rt, bidirectional |-> bi,
      num_units |-> nu, num_proj |-> np,
      num_layers |-> lp[1], num_layers_sub |-> lp[2],
      merge_bidirectional |-> mb, num_stack |-> ss[1], splice |-> ss[2],
      conv_channels |-> cv[1], conv_kernel_sizes |-> cv[2],
      conv_strides |-> cv[3], residual |-> rs[1], dense_residual |-> rs[2]] :
        rt \in rnnTypes, bi \in bidirs, nu \in units,
        np \in projs, lp \in layerPairs, mb \in merges,
        ss \in stacks, cv \in convs, rs \in BOOLEAN \X BOOLEAN}

AllLayerPairs == (0..MaxLayers) \X (0..(MaxLayers + 1))
ValidLayerPairs == {lp \in AllLayerPairs : lp[2] >= 1 /\ lp[1] >= lp[2]}

\* Every argument combination, accepted or not.
AllProj == {NoProj} \cup (0..MaxProj)

AllArgs == ArgSpace(RnnTypes \cup {"cnn"}, BOOLEAN, {MaxUnits}, AllProj,
                    BOOLEAN, AllLayerPairs, ConvArgs, StackSplice)

\* Argument combinations in every dimension forward depends on.
FwdArgs == ArgSpace({"lstm", "gru"}, BOOLEAN, 1..MaxUnits, AllProj, BOOLEAN,
                    ValidLayerPairs, {<<0, 0, 0>>, <<1, 1, 1>>}, {<<1, 1>>})

SelfUnset ==
    [rnn_type |-> Unset, bidirectional |-> Unset, num_directions |-> Unset,
     num_units |-> Unset, num_proj |-> Unset, num_layers |-> Unset,
     num_layers_sub |-> Unset, merge_bidirectional |-> Unset,
     residual |-> Unset, dense_residual |-> Unset, conv |-> Unset,
     input_size |-> Unset, rnns |-> Unset, projections |-> Unset]

(* ------------------------------ __init__ ------------------------------- *)
SubLayerOutOfRange_ZeroAccepted(a) ==
    a.num_layers_sub < 0 \/ a.num_layers < a.num_layers_sub

\* Line 77: the condition of the sub-layer range check.
SubLayerOutOfRange(a) ==
    a.num_layers_sub < 1 \/ a.num_layers < a.num_layers_sub

ResidualConflict_Unchecked(a) == FALSE

\* Line 91: the negation of the asserted condition.
ResidualConflict(a) == a.residual /\ a.dense_residual

SupportedCell_WithDefault(rnn_type) == TRUE

\* Lines 126-151: the cell kinds the constructor can build.
SupportedCell(rnn_type) == rnn_type \in RnnTypes

\* Lines 75-79: the sub-layer range check.
CtorCheckLayers ==
    /\ pc = "new"
    /\ IF SubLayerOutOfRange(args)
         THEN /\ pc' = "ctor_raised"
              /\ err' = "ValueError"
         ELSE /\ pc' = "ctor_fields"
              /\ err' = err
    /\ UNCHANGED mainVars
    /\ UNCHANGED <<args, self, pool, batches_left, calls, ctor_i_layer,
                   fwdLocals>>

\* Lines 81-93: the configuration fields and the residual-mode assertion.
CtorFields ==
    /\ pc = "ctor_fields"
    /\ LET s1 == [self EXCEPT
                    !.rnn_type = args.rnn_type,
                    !.bidirectional = args.bidirectional,
                    !.num_directions = IF args.bidirectional THEN 2 ELSE 1,
                    !.num_units = args.num_units,
                    !.num_proj = IF args.num_proj # NoProj THEN args.num_proj ELSE 0,
                    !.num_layers = args.num_layers,
                    !.num_layers_sub = args.num_layers_sub,
                    !.merge_bidirectional = args.merge_bidirectional]
       IN IF ResidualConflict(args)
            THEN /\ self' = s1
                 /\ pc' = "ctor_raised"
                 /\ err' = "AssertionError"
            ELSE /\ self' = [s1 EXCEPT !.residual = args.residual,
                                       !.dense_residual = args.dense_residual]
                 /\ pc' = "ctor_conv"
                 /\ err' = err
    /\ UNCHANGED mainVars
    /\ UNCHANGED <<args, pool, batches_left, calls, ctor_i_layer,
                   fwdLocals>>

\* Line 96: the condition under which the convolutional front-end is built.
ConvRequested(a) ==
    /\ a.conv_channels > 0
    /\ a.conv_channels = a.conv_kernel_sizes
    /\ a.conv_kernel_sizes = a.conv_strides

\* Lines 95-117: the front-end (or the splice/stack input size), then the
\* empty layer lists.
CtorConv ==
    /\ pc = "ctor_conv"
    /\ IF ConvRequested(args)
         THEN IF args.num_stack # 1 \/ args.splice # 1
                THEN /\ pc' = "ctor_raised"
                     /\ err' = "AssertionError"
                     /\ self' = self
                     /\ ctor_i_layer' = ctor_i_layer
                ELSE /\ self' = [self EXCEPT !.conv = "CNNEncoder",
                                             !.input_size = args.input_size,
                                             !.rnns = <<>>,
                                             !.projections = <<>>]
                     /\ pc' = "ctor_layers"
                     /\ err' = err
                     /\ ctor_i_layer' = 0
         ELSE /\ self' = [self EXCEPT
                            !.conv = None,
                            !.input_size =
                                args.input_size * args.splice * args.num_stack,
                            !.rnns = <<>>,
                            !.projections = <<>>]
              /\ pc' = "ctor_layers"
              /\ err' = err
              /\ ctor_i_layer' = 0
    /\ UNCHANGED mainVars
    /\ UNCHANGED <<args, pool, batches_left, calls, fwdLocals>>

\* Lines 119-124: the input width of layer i_layer's cell.
EncoderInputSize(i) ==
    IF i = 0 THEN self.input_size
    ELSE IF self.num_proj > 0 THEN args.num_proj
    ELSE args.num_units * self.num_directions

\* Lines 118-163: one iteration of the layer-building loop; leaving the loop
\* ends the constructor.
CtorLayer ==
    /\ pc = "ctor_layers"
    /\ ctor_i_layer < args.num_layers
    /\ IF ~SupportedCell(args.rnn_type)
         THEN /\ pc' = "ctor_raised"
              /\ err' = "ValueError"
              /\ UNCHANGED <<self, ctor_i_layer>>
         ELSE /\ LET rnn_i == [kind |-> args.rnn_type,
                               input_size |-> EncoderInputSize(ctor_i_layer),
                               hidden_size |-> args.num_units,
                               bidirectional |-> args.bidirectional]
                     proj_i == [in_features |->
                                    args.num_units * self.num_directions,
                                out_features |-> args.num_proj]
                 IN self' = [self EXCEPT
                       !.rnns = Append(@, rnn_i),
                       !.projections =
                           IF self.num_proj > 0 THEN Append(@, proj_i) ELSE @]
              /\ ctor_i_layer' = ctor_i_layer + 1
              /\ pc' = IF ctor_i_layer + 1 < args.num_layers
                         THEN "ctor_layers" ELSE "ready"
              /\ err' = err
    /\ UNCHANGED mainVars
    /\ UNCHANGED <<args, pool, batches_left, calls, fwdLocals>>

(* --------------------------- tensor library ---------------------------- *)
\* Symbolic content of a tensor: x counts the encoder inputs added into it,
\* cells[k] counts how often the cell output of layer k was added into it.
Layers == 0..(MaxLayers - 1)
ZeroCells == [k \in Layers |-> 0]
InputContent == [x |-> 1, cells |-> ZeroCells]
CellContent(i) == [x |-> 0, cells |-> [ZeroCells EXCEPT ![i] = 1]]
AddContent(a, b) ==
    [x |-> a.x + b.x, cells |-> [k \in Layers |-> a.cells[k] + b.cells[k]]]

IsPermutation(p, n) ==
    /\ Len(p) = n
    /\ \A j \in 0..(n - 1) : \E i \in 1..n : p[i] = j

NonIncreasing(l) == \A i \in 1..(Len(l) - 1) : l[i] >= l[i + 1]

\* tensor[index]: row i of the result is row index[i] of the tensor.
Gather(t, index) == [i \in 1..Len(index) |-> At0(t, index[i])]

SortDescending_Ascending(values) ==
    LET n == Len(values)
    IN {p \in [1..n -> 0..(n - 1)] :
           /\ IsPermutation(p, n)
           /\ \A i \in 1..(n - 1) : At0(values, p[i]) <= At0(values, p[i + 1])}

\* Tensor.sort(dim=0, descending=True): every index sequence that orders the
\* values non-increasingly (the order of equal values is not specified).
SortDescending(values) ==
    LET n == Len(values)
    IN {p \in [1..n -> 0..(n - 1)] :
           IsPermutation(p, n) /\ NonIncreasing(Gather(values, p))}

\* pack_padded_sequence: per time step, the number of sequences still running.
PackFails(t, lengths) ==
    \/ lengths[Len(lengths)] <= 0
    \/ ~NonIncreasing(lengths)
    \/ lengths[1] > t.T
    \/ Len(lengths) # Len(t.rows)

BatchSizes(lengths) ==
    [step \in 1..lengths[1] |->
        Cardinality({i \in 1..Len(lengths) : lengths[i] >= step})]

PackPadded(t, lengths) ==
    [form |-> "packed", rows |-> t.rows, batch_sizes |-> BatchSizes(lengths),
     width |-> t.width, content |-> t.content]

\* pad_packed_sequence: the padded tensor (time dimension = number of steps)
\* and the lengths recovered from the batch sizes.
UnpackedLengths(batch_sizes) ==
    [i \in 1..batch_sizes[1] |->
        Cardinality({step \in 1..Len(batch_sizes) : batch_sizes[step] >= i})]

PadPacked(p) ==
    [form |-> "padded", rows |-> p.rows, T |-> Len(p.batch_sizes),
     width |-> p.width, content |-> p.content]

\* Feature width of a + b under broadcasting of the last dimension, or
\* BadShape when the widths are incompatible.
Broadcast(a, b) ==
    IF a = b THEN a
    ELSE IF a = 1 THEN b
    ELSE IF b = 1 THEN a
    ELSE BadShape

\* Width of t[:, :, :n] + t[:, :, n:] for a tensor of width w; an empty
\* slice is rejected.
SumOfHalves(w, n) ==
    LET lo == Min(w, n)
        hi == Max(w - n, 0)
    IN IF lo = 0 \/ hi = 0 THEN BadShape ELSE Broadcast(lo, hi)

(* ------------------- collaborators outside this file ------------------- *)
ConvKernel == 1
ConvStride == 2
ConvPadding == 0

\* ConvOutSize.__call__(size, 1): the time-subsampling rule of the front-end.
ConvOutSize(size) ==
    ((size + 2 * ConvPadding - ConvKernel) \div ConvStride) + 1

\* CNNEncoder.__call__: the front-end subsamples the time dimension.
Conv(t) == [t EXCEPT !.T = ConvOutSize(t.T)]

\* _init_hidden: a fresh zero state for the given mini-batch.
InitHidden(call, batch_size) ==
    [created_in |-> call, batch_size |-> batch_size,
     num_units |-> self.num_units, num_directions |-> self.num_directions]

(* ------------------------------ forward -------------------------------- *)
Raise(e) ==
    /\ pc' = "fwd_raised"
    /\ err' = e

\* Lines 187-199: a fresh initial hidden state, then the sort by length and
\* the reordering of the inputs by the same index tensor.
SortInputs_Scattered(batch, perm) ==
    [form |-> "padded",
     rows |-> [i \in 1..Len(batch) |->
                 (CHOOSE j \in 1..Len(perm) : perm[j] = i - 1) - 1],
     T |-> Gather(batch, perm)[1],
     width |-> self.rnns[1].input_size,
     content |-> InputContent]

SortInputs_NotReordered(batch, perm) ==
    [form |-> "padded",
     rows |-> [i \in 1..Len(batch) |-> i - 1],
     T |-> Gather(batch, perm)[1],
     width |-> self.rnns[1].input_size,
     content |-> InputContent]

SortInputs(batch, perm) ==
    [form |-> "padded",
     rows |-> Gather([i \in 1..Len(batch) |-> i - 1], perm),
     T |-> Gather(batch, perm)[1],
     width |-> self.rnns[1].input_size,
     content |-> InputContent]

ForwardSort ==
    /\ pc = "ready"
    /\ batches_left > 0
    /\ \E batch \in pool :
         \E perm \in SortDescending(batch) :
            /\ seq_len_arg' = batch
            /\ h_0' = InitHidden(calls + 1, Len(batch))
            /\ inputs_seq_len' = Gather(batch, perm)
            /\ perm_indices' = perm
            /\ inputs' = SortInputs(batch, perm)
    /\ pc' = "fwd_pack"
    /\ calls' = calls + 1
    /\ batches_left' = batches_left - 1
    /\ UNCHANGED mainVars
    /\ UNCHANGED <<args, self, err, pool, ctor_i_layer, outputs,
                   res_outputs_list, i_layer, h_n, outputs_sub, h_n_sub,
                   unpacked_seq_len, unpacked_seq_len_sub, layer_log, ret>>

\* Lines 201-221: the optional front-end, the length update, the packing
\* and the initialisation of the layer loop.
ForwardPack ==
    /\ pc = "fwd_pack"
    /\ LET conv_inputs == IF self.conv # None THEN Conv(inputs) ELSE inputs
           lens == IF self.conv # None
                     THEN [i \in 1..Len(inputs_seq_len) |->
                              ConvOutSize(inputs_seq_len[i])]
                     ELSE inputs_seq_len
       IN /\ inputs_seq_len' = lens
          /\ IF PackFails(conv_inputs, lens)
               THEN /\ Raise("ValueError")
                    /\ inputs' = conv_inputs
                    /\ UNCHANGED <<outputs, res_outputs_list, i_layer>>
               ELSE /\ inputs' = PackPadded(conv_inputs, lens)
                    /\ outputs' = PackPadded(conv_inputs, lens)
                    /\ res_outputs_list' = <<>>
                    /\ i_layer' = 0
                    /\ pc' = "fwd_layers"
                    /\ err' = err
    /\ UNCHANGED mainVars
    /\ UNCHANGED <<args, self, pool, batches_left, calls, ctor_i_layer,
                   seq_len_arg, h_0,
                   perm_indices, h_n, outputs_sub, h_n_sub, unpacked_seq_len,
                   unpacked_seq_len_sub, layer_log, ret>>

\* Lines 224-227: the recurrent cell of layer i applied to a packed sequence.
\* The result is Failed when the input width is not the cell's input size.
RunCell(i, x, hx) ==
    IF x.width # self.rnns[i + 1].input_size THEN Failed
    ELSE [out |-> [x EXCEPT !.width = self.rnns[i + 1].hidden_size
                                        * self.num_directions,
                            !.content = CellContent(i)],
          h_n |-> [layer |-> i, hx |-> hx,
                   slices |-> self.num_directions]]

\* Lines 237-238: the projection of layer i, skipped on the last layer.
ProjectionApplies(i) == self.num_proj > 0 /\ i # self.num_layers - 1

Project(i, t) ==
    IF t.width # self.projections[i + 1].in_features THEN Failed
    ELSE [t EXCEPT !.width = self.projections[i + 1].out_features]

\* Lines 243-244: outputs = outputs + outputs_lower for every retained output.
RECURSIVE AddResiduals(_, _)
AddResiduals(t, lowers) ==
    IF lowers = <<>> THEN t
    ELSE LET w == Broadcast(t.width, Head(lowers).width)
         IN IF w = BadShape THEN Failed
            ELSE AddResiduals(
                    [t EXCEPT !.width = w,
                              !.content = AddContent(@, Head(lowers).content)],
                    Tail(lowers))

Retain_AlwaysAppends(list, t) ==
    IF self.residual \/ self.dense_residual THEN Append(list, t) ELSE list

\* Lines 245-248: what is retained after a layer.
Retain(list, t) ==
    IF self.residual THEN <<t>>
    ELSE IF self.dense_residual THEN Append(list, t)
    ELSE list

Repack_TruncatedToShortest(t, lens) ==
    PackPadded(t, [i \in 1..Len(lens) |-> lens[Len(lens)]])

\* Lines 250-253: the re-packing of a layer's output.
Repack(t, lens) == PackPadded(t, lens)

\* Line 229: the layers that unpack, transform and re-pack their output.
Unpacks == self.residual \/ self.dense_residual \/ self.num_proj > 0

LayerInitialState_ChainedFromBelow(i) == IF i = 0 THEN h_0 ELSE h_n

\* Lines 225 and 227: hx=h_0, the initial state every layer's cell is given.
LayerInitialState(i) == h_0

IsSubLayer_LastLayer(i) == i = self.num_layers - 1

\* Line 255: the layer whose output and final state are kept for the sub task.
IsSubLayer(i) == i = self.num_layers_sub - 1

\* Lines 223-257: one iteration of the layer loop.
ForwardLayer ==
    /\ pc = "fwd_layers"
    /\ i_layer < self.num_layers
    /\ LET cell == RunCell(i_layer, outputs, LayerInitialState(i_layer))
       IN IF cell = Failed
            THEN /\ Raise("RuntimeError")
                 /\ UNCHANGED <<outputs, res_outputs_list, i_layer, h_n,
                                outputs_sub, h_n_sub, unpacked_seq_len,
                                layer_log>>
            ELSE
              LET padded == PadPacked(cell.out)
                  lens == UnpackedLengths(cell.out.batch_sizes)
                  projected == IF ProjectionApplies(i_layer)
                                 THEN Project(i_layer, padded) ELSE padded
                  summed == IF projected = Failed THEN Failed
                            ELSE IF self.residual \/ self.dense_residual
                              THEN AddResiduals(projected, res_outputs_list)
                            ELSE projected
                  passed_on == IF Unpacks THEN Repack(summed, lens)
                               ELSE cell.out
                  entry == [layer |-> i_layer,
                            projected |-> Unpacks /\ ProjectionApplies(i_layer),
                            retained_before |-> res_outputs_list,
                            hx |-> cell.h_n.hx,
                            out |-> passed_on,
                            kept_for_sub |-> IsSubLayer(i_layer)]
              IN /\ h_n' = cell.h_n
                 /\ IF ~Unpacks
                      THEN /\ outputs' = cell.out
                           /\ i_layer' = i_layer + 1
                           /\ pc' = IF i_layer + 1 < self.num_layers
                                      THEN "fwd_layers" ELSE "fwd_unpad"
                           /\ err' = err
                           /\ outputs_sub' = IF IsSubLayer(i_layer)
                                               THEN cell.out ELSE outputs_sub
                           /\ h_n_sub' = IF IsSubLayer(i_layer)
                                           THEN cell.h_n ELSE h_n_sub
                           /\ layer_log' = Append(layer_log, entry)
                           /\ UNCHANGED <<res_outputs_list, unpacked_seq_len>>
                    ELSE IF inputs_seq_len # lens
                      THEN /\ Raise("AssertionError")
                           /\ outputs' = padded
                           /\ unpacked_seq_len' = lens
                           /\ UNCHANGED <<res_outputs_list, i_layer,
                                          outputs_sub, h_n_sub, layer_log>>
                    ELSE IF summed = Failed
                      THEN /\ Raise("RuntimeError")
                           /\ outputs' = padded
                           /\ unpacked_seq_len' = lens
                           /\ UNCHANGED <<res_outputs_list, i_layer,
                                          outputs_sub, h_n_sub, layer_log>>
                    ELSE /\ unpacked_seq_len' = lens
                         /\ res_outputs_list' = Retain(res_outputs_list, summed)
                         /\ outputs' = Repack(summed, lens)
                         /\ i_layer' = i_layer + 1
                         /\ pc' = IF i_layer + 1 < self.num_layers
                                    THEN "fwd_layers" ELSE "fwd_unpad"
                         /\ err' = err
                         /\ outputs_sub' = IF IsSubLayer(i_layer)
                                             THEN Repack(summed, lens)
                                             ELSE outputs_sub
                         /\ h_n_sub' = IF IsSubLayer(i_layer)
                                         THEN cell.h_n ELSE h_n_sub
                         /\ layer_log' = Append(layer_log, entry)
    /\ UNCHANGED mainVars
    /\ UNCHANGED <<args, self, pool, batches_left, calls, ctor_i_layer,
                   seq_len_arg, h_0,
                   perm_indices, inputs, inputs_seq_len,
                   unpacked_seq_len_sub, ret>>

\* Lines 274-280: the forward-direction slice of a final hidden state.
FinalStateFw(h) ==
    [of |-> h,
     slice |-> IF self.num_directions = 2 THEN h.slices - 2 ELSE h.slices - 1]

\* Lines 259-286: unpack both outputs, check the lengths, merge the
\* directions, pick the final states and return.
ForwardReturn ==
    /\ pc = "fwd_unpad"
    /\ LET out == PadPacked(outputs)
           lens == UnpackedLengths(outputs.batch_sizes)
           sub == PadPacked(outputs_sub)
           lens_sub == UnpackedLengths(outputs_sub.batch_sizes)
           merging == self.bidirectional /\ self.merge_bidirectional
           w == IF merging THEN SumOfHalves(out.width, self.num_units)
                ELSE out.width
           w_sub == IF merging THEN SumOfHalves(sub.width, self.num_units)
                    ELSE sub.width
       IN /\ unpacked_seq_len' = lens
          /\ unpacked_seq_len_sub' = lens_sub
          /\ IF inputs_seq_len # lens \/ inputs_seq_len # lens_sub
               THEN /\ Raise("AssertionError")
                    /\ outputs' = out
                    /\ outputs_sub' = sub
                    /\ ret' = ret
             ELSE IF w = BadShape \/ w_sub = BadShape
               THEN /\ Raise("RuntimeError")
                    /\ outputs' = out
                    /\ outputs_sub' = sub
                    /\ ret' = ret
             ELSE /\ outputs' = [out EXCEPT !.width = w]
                  /\ outputs_sub' = [sub EXCEPT !.width = w_sub]
                  /\ ret' = [outputs |-> [out EXCEPT !.width = w],
                             final_state_fw |-> FinalStateFw(h_n),
                             outputs_sub |-> [sub EXCEPT !.width = w_sub],
                             final_state_fw_sub |-> FinalStateFw(h_n_sub),
                             perm_indices |-> perm_indices]
                  /\ pc' = "returned"
                  /\ err' = err
    /\ UNCHANGED mainVars
    /\ UNCHANGED <<args, self, pool, batches_left, calls, ctor_i_layer,
                   seq_len_arg, h_0,
                   perm_indices, inputs, inputs_seq_len, res_outputs_list,
                   i_layer, h_n, h_n_sub, layer_log>>

\* Line 284 and the end of the call: every local of forward is discarded and
\* the encoder can be invoked again.
DiscardFrame ==
    /\ pc' = "ready"
    /\ err' = "none"
    /\ seq_len_arg' = Unbound
    /\ h_0' = Unset
    /\ perm_indices' = Unbound
    /\ inputs' = Unset
    /\ inputs_seq_len' = Unbound
    /\ outputs' = Unset
    /\ res_outputs_list' = Unbound
    /\ i_layer' = Unset
    /\ h_n' = Unset
    /\ outputs_sub' = Unset
    /\ h_n_sub' = Unset
    /\ unpacked_seq_len' = Unbound
    /\ unpacked_seq_len_sub' = Unbound
    /\ layer_log' = <<>>
    /\ ret' = Unset
    /\ UNCHANGED <<args, self, pool, calls, ctor_i_layer>>

\* The end of an invocation made directly on the encoder, by return or by
\* exception.
ForwardExit ==
    /\ pc \in {"returned", "fwd_raised"}
    /\ DiscardFrame
    /\ UNCHANGED batches_left
    /\ UNCHANGED mainVars

(* ------------------------------ scripts -------------------------------- *)
Scripts == {"eval", "plot_attention", "plot_nested"}

EvalMainOrder_DecodesUnrestored ==
    <<"config", "model", "cuda", "dataset", "iterate", "checkpoint">>

\* eval.py, main: the configuration (lines 40-48), load (51), set_cuda (54),
\* load_checkpoint and model.eval() (57-62), the two Dataset objects (65-86),
\* then the evaluation over their mini-batches (88-139).
EvalMainOrder ==
    <<"config", "model", "cuda", "checkpoint", "dataset", "iterate">>

\* plot_attention_weights.py, main: load_config (41), Dataset (44-59),
\* load (62-64), load_checkpoint (67), set_cuda (70), plot (73-77).
PlotMainOrder ==
    <<"config", "dataset", "model", "checkpoint", "cuda", "iterate">>

\* plot_nested_attention_weights.py, main: load_config (56), Dataset (59-75),
\* load (78-80), load_checkpoint (83), set_cuda (86), plot (89-94).
PlotNestedMainOrder ==
    <<"config", "dataset", "model", "checkpoint", "cuda", "iterate">>

MainOrder(s) ==
    CASE s = "eval" -> EvalMainOrder
      [] s = "plot_attention" -> PlotMainOrder
      [] s = "plot_nested" -> PlotNestedMainOrder

\* The statement main executes next.
NextStage ==
    IF Len(main_log) < Len(MainOrder(script))
      THEN MainOrder(script)[Len(main_log) + 1]
      ELSE "done"

\* main is at the statement `stage` and no constructor call is in progress.
MainStage(stage) ==
    /\ script \in Scripts
    /\ pc \in {"main", "ready"}
    /\ NextStage = stage
    /\ main_log' = Append(main_log, stage)
    /\ UNCHANGED <<script, figures>>

\* load_config(join(args.model_path, 'config.yml'), is_eval=True).
MainLoadConfig ==
    /\ MainStage("config")
    /\ UNCHANGED <<pc, args, self, err, pool, batches_left, calls,
                   ctor_i_layer, fwdLocals, dataset>>

\* Dataset(...): the evaluation split, as a number of mini-batches.
MainLoadDataset ==
    /\ MainStage("dataset")
    /\ \E n \in 1..MaxBatches : dataset' = n
    /\ UNCHANGED <<pc, args, self, err, pool, batches_left, calls,
                   ctor_i_layer, fwdLocals>>

\* load(model_type, params, backend): the model, and so the encoder, is
\* constructed from the configuration.
MainLoadModel ==
    /\ MainStage("model")
    /\ pc = "main"
    /\ pc' = "new"
    /\ UNCHANGED <<args, self, err, pool, batches_left, calls,
                   ctor_i_layer, fwdLocals, dataset>>

\* model.load_checkpoint(save_path, epoch) on the constructed model.
MainRestoreCheckpoint ==
    /\ MainStage("checkpoint")
    /\ pc = "ready"
    /\ UNCHANGED <<pc, args, self, err, pool, batches_left, calls,
                   ctor_i_layer, fwdLocals, dataset>>

\* model.set_cuda(deterministic=False, benchmark=True).
MainSetCuda ==
    /\ MainStage("cuda")
    /\ pc = "ready"
    /\ UNCHANGED <<pc, args, self, err, pool, batches_left, calls,
                   ctor_i_layer, fwdLocals, dataset>>

\* The call of plot / do_eval_*: the loop over the data set's mini-batches
\* starts; each of them is decoded by a forward invocation.
MainIterate ==
    /\ MainStage("iterate")
    /\ pc = "ready"
    /\ batches_left' = dataset
    /\ UNCHANGED <<pc, args, self, err, pool, calls, ctor_i_layer,
                   fwdLocals, dataset>>

\* model.attention_weights, given what the encoder returned: hypotheses and
\* attention weights by row of the encoder output, and the encoder's index
\* tensor as perm_idx.
AttentionWeights(r) ==
    [best_hyps |-> r.outputs.rows, aw |-> r.outputs.rows,
     perm_idx |-> r.perm_indices]

\* plot_attention_weights.py, lines 108-137: the figure of index b, each of
\* its parts named by the utterance (position in the mini-batch) it is of.
Figure(b, ys, decoded) ==
    [frame_num |-> b,
     spectrogram |-> b,
     save_path |-> b,
     str_ref |-> At0(ys, b),
     label_list |-> At0(decoded.best_hyps, b),
     attention_weights |-> At0(decoded.aw, b)]

\* plot_attention_weights.py, lines 102-140: one iteration of the loop of
\* plot, after the decoding of the mini-batch has returned.
MainPlotBatch ==
    /\ script = "plot_attention"
    /\ pc = "returned"
    /\ LET decoded == AttentionWeights(ret)
           batch_ids == [i \in 1..Len(seq_len_arg) |-> i - 1]
           ys == Gather(batch_ids, decoded.perm_idx)
       IN figures' = [i \in 1..Len(seq_len_arg) |-> Figure(i - 1, ys, decoded)]
    /\ DiscardFrame
    /\ UNCHANGED <<batches_left, script, main_log, dataset>>

\* plot_nested_attention_weights.py, lines 119-178: one iteration of the
\* loop of plot; no index tensor is returned and no reference is drawn.
MainPlotNestedBatch ==
    /\ script = "plot_nested"
    /\ pc = "returned"
    /\ LET decoded == AttentionWeights(ret)
       IN figures' = [i \in 1..Len(seq_len_arg) |->
                        [frame_num |-> i - 1,
                         spectrogram |-> i - 1,
                         save_path |-> i - 1,
                         label_list |-> At0(decoded.best_hyps, i - 1),
                         attention_weights |-> At0(decoded.aw, i - 1)]]
    /\ DiscardFrame
    /\ UNCHANGED <<batches_left, script, main_log, dataset>>

\* eval.py, lines 88-139: one mini-batch decoded inside do_eval_cer or
\* do_eval_wer; nothing is drawn.
MainEvalBatch ==
    /\ script = "eval"
    /\ pc = "returned"
    /\ DiscardFrame
    /\ UNCHANGED <<batches_left, mainVars>>

(* --------------------------- specifications ---------------------------- *)
\* Nothing constructed and no invocation made yet.
Unconstructed(argSet, batches) ==
    /\ args \in argSet
    /\ self = SelfUnset
    /\ err = "none"
    /\ pool = batches
    /\ calls = 0
    /\ ctor_i_layer = Unset
    /\ seq_len_arg = Unbound
    /\ h_0 = Unset
    /\ perm_indices = Unbound
    /\ inputs = Unset
    /\ inputs_seq_len = Unbound
    /\ outputs = Unset
    /\ res_outputs_list = Unbound
    /\ i_layer = Unset
    /\ h_n = Unset
    /\ outputs_sub = Unset
    /\ h_n_sub = Unset
    /\ unpacked_seq_len = Unbound
    /\ unpacked_seq_len_sub = Unbound
    /\ layer_log = <<>>
    /\ ret = Unset

\* The encoder used directly: its constructor is called, then forward.
InitWith(argSet, batches, invocations) ==
    /\ pc = "new"
    /\ batches_left = invocations
    /\ script = "none"
    /\ main_log = <<>>
    /\ dataset = 0
    /\ figures = <<>>
    /\ Unconstructed(argSet, batches)

Next ==
    \/ CtorCheckLayers
    \/ CtorFields
    \/ CtorConv
    \/ CtorLayer
    \/ ForwardSort
    \/ ForwardPack
    \/ ForwardLayer
    \/ ForwardReturn
    \/ ForwardExit

\* pool is the set of mini-batches (their lengths) the caller may pass and
\* batches_left the number of invocations it still makes.

\* Every constructor argument combination; forward on the smallest batch.
Init == InitWith(AllArgs, Batches(1, 1), 1)
Spec == Init /\ [][Next]_vars

\* Every accepted configuration forward depends on, on small batches.
InitFwd == InitWith(FwdArgs, Batches(2, 2), 1)
SpecFwd == InitFwd /\ [][Next]_vars

\* Two layers with the sub-task tap at layer 1, on every batch.
BatchArgs == ArgSpace({"lstm"}, {FALSE}, {MaxUnits}, 0..1, {FALSE},
                      {<<2, 1>>}, {<<0, 0, 0>>, <<1, 1, 1>>}, {<<1, 1>>})
InitBatch == InitWith(BatchArgs, Batches(MaxBatch, MaxLen), 1)
SpecBatch == InitBatch /\ [][Next]_vars

\* Several invocations of one encoder, one after the other.
CallArgs == ArgSpace({"lstm", "gru"}, BOOLEAN, {MaxUnits}, {0}, {FALSE},
                     {<<2, 1>>, <<2, 2>>}, {<<0, 0, 0>>, <<1, 1, 1>>},
                     {<<1, 1>>})
InitCalls == InitWith(CallArgs, Batches(2, 2), MaxCalls)
SpecCalls == InitCalls /\ [][Next]_vars

\* A script run from its first statement.  The mini-batches of
\* plot_nested_attention_weights.py come from a data set sorted by length
\* (sort_utt=True, reverse=True); the other two scripts do not sort.
MainArgs == ArgSpace({"lstm"}, {FALSE}, {MaxUnits}, {0}, {FALSE},
                     {<<2, 1>>}, {<<0, 0, 0>>}, {<<1, 1>>})

DatasetBatches(s) ==
    IF s = "plot_nested" THEN {b \in Batches(2, 2) : NonIncreasing(b)}
    ELSE Batches(2, 2)

InitMain ==
    /\ pc = "main"
    /\ batches_left = 0
    /\ script \in Scripts
    /\ main_log = <<>>
    /\ dataset = 0
    /\ figures = <<>>
    /\ Unconstructed(MainArgs, DatasetBatches(script))

NextMain ==
    \/ MainLoadConfig
    \/ MainLoadDataset
    \/ MainLoadModel
    \/ CtorCheckLayers
    \/ CtorFields
    \/ CtorConv
    \/ CtorLayer
    \/ MainRestoreCheckpoint
    \/ MainSetCuda
    \/ MainIterate
    \/ ForwardSort
    \/ ForwardPack
    \/ ForwardLayer
    \/ ForwardReturn
    \/ MainPlotBatch
    \/ MainPlotNestedBatch
    \/ MainEvalBatch

SpecMain == InitMain /\ [][NextMain]_vars

(* ------------------------------- claims -------------------------------- *)
\* The caller's batch order: row i is original input i.
OriginalOrder(n) == [i \in 1..n |-> i - 1]

\* The index tensor that undoes index tensor p.
InversePermutation(p) ==
    [j \in 1..Len(p) |-> (CHOOSE i \in 1..Len(p) : p[i] = j - 1) - 1]

\* C1 as stated: indexing the length-sorted output with the returned
\* perm_indices gives back the caller's order, for every batch.
C1_IndexingBySortPermRestoresOrder ==
    pc = "returned" =>
        Gather(ret.outputs.rows, ret.perm_indices)
            = OriginalOrder(Len(seq_len_arg))

\* C1 amended: sorted output row i is the output of original input
\* perm_indices[i], so indexing the sorted output with the inverse of
\* perm_indices restores the caller's order, and indexing with perm_indices
\* itself does so exactly when perm_indices is its own inverse.
C1_InversePermRestoresOrder ==
    pc = "returned" =>
        /\ Gather(ret.outputs.rows, InversePermutation(ret.perm_indices))
              = OriginalOrder(Len(seq_len_arg))
        /\ Gather(ret.outputs_sub.rows, InversePermutation(ret.perm_indices))
              = OriginalOrder(Len(seq_len_arg))
        /\ (Gather(ret.outputs.rows, ret.perm_indices)
               = OriginalOrder(Len(seq_len_arg)))
           <=> (Gather(ret.perm_indices, ret.perm_indices)
                  = OriginalOrder(Len(seq_len_arg)))

C1_Witness ==
    /\ pc = "returned"
    /\ seq_len_arg = <<3, 5, 4>>
    /\ ret.perm_indices = <<1, 2, 0>>
    /\ ret.outputs.rows = <<1, 2, 0>>

\* C2: a sub-layer index below 1 or above num_layers makes construction
\* fail with ValueError at the range check, whatever the other arguments
\* are: no field is set, no layer is built, the encoder never becomes usable.
C2_SubLayerRangeFailsEagerly ==
    (args.num_layers_sub < 1 \/ args.num_layers_sub > args.num_layers)
    => /\ pc \in {"new", "ctor_raised"}
       /\ pc = "ctor_raised" => err = "ValueError"
       /\ self = SelfUnset
       /\ calls = 0

C2_Witness ==
    /\ pc = "ctor_raised"
    /\ err = "ValueError"
    /\ args.num_layers_sub = 0
    /\ args.num_layers >= 1
    /\ args.rnn_type = "lstm"
    /\ ~args.residual
    /\ self = SelfUnset

\* C3: residual=True together with dense_residual=True makes construction
\* fail, whatever the other arguments are: neither mode is ever stored and
\* the constructor never gets past the assertion.
C3_BothResidualModesFail ==
    (args.residual /\ args.dense_residual)
    => /\ pc \in {"new", "ctor_fields", "ctor_raised"}
       /\ pc = "ctor_raised" => err \in {"ValueError", "AssertionError"}
       /\ self.residual = Unset
       /\ self.dense_residual = Unset
       /\ calls = 0

C3_Witness ==
    /\ pc = "ctor_raised"
    /\ err = "AssertionError"
    /\ args.residual
    /\ args.dense_residual
    /\ args.num_layers_sub >= 1
    /\ args.num_layers >= args.num_layers_sub
    /\ args.conv_channels > 0

\* C4: an rnn_type other than lstm, gru, rnn makes construction fail: when
\* the layer loop is entered it has a first iteration to run (num_layers >= 1)
\* and no cell has been built, and the encoder never becomes usable.
C4_UnknownCellKindFails ==
    (args.rnn_type \notin {"lstm", "gru", "rnn"})
    => /\ pc \in {"new", "ctor_fields", "ctor_conv", "ctor_layers",
                  "ctor_raised"}
       /\ pc = "ctor_layers" =>
            /\ ctor_i_layer = 0
            /\ ctor_i_layer < args.num_layers
            /\ self.rnns = <<>>
       /\ calls = 0

C4_Witness ==
    /\ pc = "ctor_raised"
    /\ err = "ValueError"
    /\ args.rnn_type \notin {"lstm", "gru", "rnn"}
    /\ args.num_layers_sub >= 1
    /\ args.num_layers >= args.num_layers_sub
    /\ ~(args.residual /\ args.dense_residual)
    /\ self.rnns = <<>>

\* The non-increasing rearrangement of a list of lengths, by rank.
Ranked(values) ==
    [i \in 1..Len(values) |->
        CHOOSE v \in {values[j] : j \in 1..Len(values)} :
            /\ Cardinality({j \in 1..Len(values) : values[j] > v}) < i
            /\ Cardinality({j \in 1..Len(values) : values[j] >= v}) >= i]

\* The lengths forward tracks: the sorted input lengths, mapped through the
\* front-end's subsampling rule when a front-end is configured.
TrackedLengths ==
    LET sorted == Ranked(seq_len_arg)
    IN IF self.conv = None THEN sorted
       ELSE [i \in 1..Len(sorted) |-> ConvOutSize(sorted[i])]

InForward ==
    pc \in {"fwd_pack", "fwd_layers", "fwd_unpad", "returned", "fwd_raised"}

\* C5: whenever forward has unpadded an output (inside a layer, or the final
\* and the sub-task output after the loop), the lengths it obtained are the
\* tracked lengths, and no length assertion fails.
C5_UnpaddedLengthsAreTracked ==
    InForward =>
        /\ unpacked_seq_len # Unbound => unpacked_seq_len = TrackedLengths
        /\ unpacked_seq_len_sub # Unbound =>
              unpacked_seq_len_sub = TrackedLengths
        /\ pc \in {"fwd_layers", "fwd_unpad", "returned"} =>
              inputs_seq_len = TrackedLengths
        /\ err # "AssertionError"

C5_Witness ==
    /\ pc = "fwd_layers"
    /\ i_layer = 1
    /\ self.conv = "CNNEncoder"
    /\ self.dense_residual
    /\ seq_len_arg = <<2, 5, 3>>
    /\ unpacked_seq_len = <<3, 2, 1>>

\* C6 as stated: with bidirectional and merge_bidirectional, for every
\* accepted configuration the sum of the two direction halves is well-formed
\* and both returned outputs have last dimension num_units.
C6_MergedWidthIsNumUnits ==
    (/\ pc \in {"returned", "fwd_raised"}
     /\ self.bidirectional
     /\ self.merge_bidirectional
     /\ unpacked_seq_len_sub # Unbound)
    => /\ pc = "returned"
       /\ ret.outputs.width = self.num_units
       /\ ret.outputs_sub.width = self.num_units

\* C7: lengths [5, 3, 4], no front-end, one direction, two layers, sub-layer
\* index 1 (residual modes at their defaults): forward returns, both outputs
\* have time dimension 5 and perm_indices is [0, 2, 1].
C7_Scenario ==
    (/\ pc \in {"returned", "fwd_raised"}
     /\ seq_len_arg = <<5, 3, 4>>
     /\ self.conv = None
     /\ ~self.bidirectional
     /\ self.num_layers = 2
     /\ self.num_layers_sub = 1
     /\ ~self.residual
     /\ ~self.dense_residual)
    => /\ pc = "returned"
       /\ ret.outputs.T = 5
       /\ ret.outputs_sub.T = 5
       /\ ret.perm_indices = <<0, 2, 1>>

C7_Witness ==
    /\ pc = "returned"
    /\ seq_len_arg = <<5, 3, 4>>
    /\ self.conv = None
    /\ ~self.bidirectional
    /\ self.num_layers = 2
    /\ self.num_layers_sub = 1
    /\ ~self.residual
    /\ ~self.dense_residual
    /\ ret.outputs.T = 5
    /\ ret.perm_indices = <<0, 2, 1>>

\* C8: after the first step of forward and before packing, perm_indices is a
\* permutation of 0..B-1, sorted row i is original row perm_indices[i], the
\* lengths are non-increasing and every row is still paired with its own
\* length.
C8_SortStep ==
    pc = "fwd_pack" =>
        LET n == Len(seq_len_arg)
        IN /\ Len(perm_indices) = n
           /\ {perm_indices[i] : i \in 1..n} = 0..(n - 1)
           /\ \A i \in 1..n : inputs.rows[i] = perm_indices[i]
           /\ \A i \in 1..(n - 1) : inputs_seq_len[i] >= inputs_seq_len[i + 1]
           /\ \A i \in 1..n :
                 inputs_seq_len[i] = At0(seq_len_arg, inputs.rows[i])

C8_Witness ==
    /\ pc = "fwd_pack"
    /\ seq_len_arg = <<3, 5, 5>>
    /\ perm_indices = <<2, 1, 0>>
    /\ inputs_seq_len = <<5, 5, 3>>

\* 2^n.
RECURSIVE Pow2(_)
Pow2(n) == IF n = 0 THEN 1 ELSE 2 * Pow2(n - 1)

\* The content of layer k's accumulated output, in closed form: its own cell
\* output once; under plain residual every earlier cell output once; under
\* dense-residual the cell output of layer j < k exactly 2^(k-j-1) times.
AccumulatedContent(k) ==
    [x |-> 0,
     cells |-> [j \in Layers |->
                  IF j = k THEN 1
                  ELSE IF j > k THEN 0
                  ELSE IF self.residual THEN 1
                  ELSE IF self.dense_residual THEN Pow2(k - j - 1)
                  ELSE 0]]

RECURSIVE SumContent(_)
SumContent(list) ==
    IF list = <<>> THEN [x |-> 0, cells |-> ZeroCells]
    ELSE AddContent(Head(list).content, SumContent(Tail(list)))

\* C9: the residual accumulator is empty when the layer loop starts; after
\* i layers it holds the current accumulated output alone (plain residual),
\* the accumulated outputs of layers 1..i in order (dense-residual), or
\* nothing (neither); every accumulated output is the layer's cell output
\* plus the sum of what was retained before the layer, and never contains
\* the encoder inputs.
C9_ResidualAccumulator ==
    pc \in {"fwd_layers", "fwd_unpad"} =>
        /\ i_layer = 0 => res_outputs_list = <<>>
        /\ Len(layer_log) = i_layer
        /\ Len(res_outputs_list) =
              IF self.residual THEN (IF i_layer = 0 THEN 0 ELSE 1)
              ELSE IF self.dense_residual THEN i_layer
              ELSE 0
        /\ \A k \in 1..Len(res_outputs_list) :
              res_outputs_list[k].content =
                  AccumulatedContent(IF self.residual THEN i_layer - 1
                                     ELSE k - 1)
        /\ i_layer >= 1 =>
              /\ outputs.content = AccumulatedContent(i_layer - 1)
              /\ outputs.content =
                    AddContent(CellContent(i_layer - 1),
                               SumContent(layer_log[i_layer].retained_before))
              /\ layer_log[1].retained_before = <<>>

C9_Witness ==
    /\ pc = "fwd_unpad"
    /\ self.dense_residual
    /\ i_layer = 3
    /\ Len(res_outputs_list) = 3
    /\ outputs.content.cells[0] = 2

\* C10 as stated: with num_proj > 0 the projection is applied at every layer
\* but the last, every earlier layer hands on width num_proj and the final
\* output keeps width num_units * num_directions; with num_proj 0 or None no
\* projection is applied.
C10_ProjectionWidths ==
    pc \in {"fwd_layers", "fwd_unpad"} =>
        /\ \A k \in 1..Len(layer_log) :
              layer_log[k].projected
                  <=> (self.num_proj > 0 /\ k < self.num_layers)
        /\ (pc = "fwd_layers" /\ i_layer >= 1 /\ self.num_proj > 0) =>
              outputs.width = self.num_proj
        /\ pc = "fwd_unpad" =>
              outputs.width = self.num_units * self.num_directions

\* C11: the sub-task output and hidden state are taken exactly once, at layer
\* number num_layers_sub, from what that layer hands on after its projection
\* and residual additions; they are assigned before the loop ends, later
\* layers leave them alone, and with num_layers_sub = num_layers the returned
\* sub-task output and final state equal the final output and final state.
C11_SubTaskSnapshot ==
    /\ pc \in {"fwd_layers", "fwd_unpad"} =>
          /\ Len(layer_log) = i_layer
          /\ \A k \in 1..Len(layer_log) :
                layer_log[k].kept_for_sub <=> k = self.num_layers_sub
          /\ pc = "fwd_unpad" => i_layer >= self.num_layers_sub
          /\ i_layer >= self.num_layers_sub =>
                /\ outputs_sub = layer_log[self.num_layers_sub].out
                /\ outputs_sub.content =
                      AccumulatedContent(self.num_layers_sub - 1)
                /\ (/\ layer_log[self.num_layers_sub].projected
                    /\ ~self.residual
                    /\ ~self.dense_residual)
                   => outputs_sub.width = self.num_proj
                /\ h_n_sub.layer = self.num_layers_sub - 1
                /\ i_layer = self.num_layers_sub =>
                      outputs_sub = outputs /\ h_n_sub = h_n
    /\ (pc = "returned" /\ self.num_layers_sub = self.num_layers) =>
          /\ ret.outputs_sub = ret.outputs
          /\ ret.final_state_fw_sub = ret.final_state_fw

C11_Witness ==
    /\ pc = "fwd_unpad"
    /\ self.num_layers = 3
    /\ self.num_layers_sub = 2
    /\ self.residual
    /\ layer_log[2].projected
    /\ outputs_sub = layer_log[2].out
    /\ outputs_sub # outputs
    /\ h_n_sub.layer = 1
    /\ h_n.layer = 2

\* C12: in every invocation of forward the initial state is the one created
\* at the start of that invocation, every layer's cell is started from it
\* (never from a final state of another layer or of an earlier invocation),
\* and forward leaves the encoder's configuration fields unchanged.
C12_FreshInitialState ==
    /\ [](InForward =>
            /\ h_0 = InitHidden(calls, Len(seq_len_arg))
            /\ \A k \in 1..Len(layer_log) : layer_log[k].hx = h_0
            /\ (pc \in {"fwd_layers", "fwd_unpad"} /\ i_layer >= 1) =>
                  h_n.hx = h_0
            /\ pc = "returned" =>
                  /\ ret.final_state_fw.of.hx = h_0
                  /\ ret.final_state_fw_sub.of.hx = h_0)
    /\ [][InForward => self' = self]_vars

C12_Witness ==
    /\ pc = "fwd_unpad"
    /\ calls = 2
    /\ i_layer = 2
    /\ h_0.created_in = 2
    /\ layer_log[2].hx = h_0
    /\ h_n.layer = 1
    /\ h_n.hx.created_in = 2

\* The last dimension of layer i's output after its optional projection,
\* i.e. of the left operand of the residual additions of that layer.
AddendWidth(i) ==
    IF ProjectionApplies(i) THEN self.projections[i + 1].out_features
    ELSE self.rnns[i + 1].hidden_size * self.num_directions

\* C14 as stated: with residual or dense_residual enabled, whenever a layer
\* is about to run, every retained earlier output has the same last
\* dimension as that layer's output after its optional projection (the last
\* layer included), and no residual addition is rejected.
C14_ResidualWidthsAgree ==
    (InForward /\ (self.residual \/ self.dense_residual)) =>
        /\ (pc = "fwd_layers" /\ i_layer < self.num_layers) =>
              \A k \in 1..Len(res_outputs_list) :
                 res_outputs_list[k].width = AddendWidth(i_layer)
        /\ err # "RuntimeError"

\* C16 as stated: whenever conv_channels is non-empty, an encoder that has
\* been constructed has the convolutional front-end, and was built with
\* num_stack = 1 and splice = 1; it is never returned without a front-end.
C16_ConvRequestIsHonoured ==
    (pc = "ready" /\ args.conv_channels > 0) =>
        /\ self.conv = "CNNEncoder"
        /\ args.num_stack = 1
        /\ args.splice = 1

\* Step a of main has been done at an earlier position than every
\* occurrence of step b.
Precedes(a, b) ==
    \A j \in 1..Len(main_log) :
       main_log[j] = b => \E i \in 1..(j - 1) : main_log[i] = a

\* A mini-batch is being decoded or has been decoded.
Decoding == calls > 0

\* C13 as stated: in each of the three scripts main loads the configuration,
\* then the data set, then the model, then restores the checkpoint, then
\* iterates over the mini-batches.
C13_DatasetFirstInEveryScript ==
    script \in Scripts =>
        /\ Precedes("config", "dataset")
        /\ Precedes("dataset", "model")
        /\ Precedes("model", "checkpoint")
        /\ Precedes("checkpoint", "iterate")
        /\ Decoding => \E i \in 1..Len(main_log) : main_log[i] = "iterate"

\* C13, amended: every script loads the configuration first, builds the
\* model before it restores the checkpoint, and restores the checkpoint and
\* loads the data set before any mini-batch is decoded; the two plot scripts
\* load the data set before they build the model, eval.py loads it after the
\* checkpoint has been restored.
C13_StepOrderPerScript ==
    script \in Scripts =>
        /\ main_log # <<>> => main_log[1] = "config"
        /\ Precedes("model", "checkpoint")
        /\ Precedes("checkpoint", "iterate")
        /\ Precedes("dataset", "iterate")
        /\ script \in {"plot_attention", "plot_nested"} =>
              Precedes("dataset", "model")
        /\ script = "eval" => Precedes("checkpoint", "dataset")
        /\ Decoding =>
              /\ pc \notin {"main", "new"}
              /\ \A step \in {"config", "dataset", "model", "checkpoint",
                                "iterate"} :
                    \E i \in 1..Len(main_log) : main_log[i] = step

C13_Witness ==
    /\ script = "eval"
    /\ pc = "returned"
    /\ calls = 2
    /\ main_log = <<"config", "model", "cuda", "checkpoint", "dataset",
                    "iterate">>

\* C15 as stated: every figure plot_attention_weights.py draws combines the
\* frame count, spectrogram, file name, reference, hypothesis and attention
\* weights of one and the same utterance.
C15_FigureOfOneUtterance ==
    script = "plot_attention" =>
        \A b \in 1..Len(figures) :
           /\ figures[b].spectrogram = figures[b].frame_num
           /\ figures[b].save_path = figures[b].frame_num
           /\ figures[b].str_ref = figures[b].frame_num
           /\ figures[b].label_list = figures[b].frame_num
           /\ figures[b].attention_weights = figures[b].frame_num

====
